---- MODULE Spec2Model ----
(***************************************************************************)
(* The application bootstrap of ClassQuiz (classquiz/__init__.py): the    *)
(* startup/shutdown lifecycle hooks against the shared database handle,   *)
(* the fire-and-forget background scheduler loop, and the HTTP middleware *)
(* chain (sentry_exception, auth_middleware_wrapper, SessionMiddleware)   *)
(* around the route handlers.                                             *)
(*                                                                         *)
(* The lifecycle hooks are invoked one after the other (the ASGI lifespan  *)
(* runs them sequentially); every await inside startup() is a separate    *)
(* step, so the background loops and a request interleave with it.        *)
(***************************************************************************)
EXTENDS Naturals, Sequences, FiniteSets

\* ------------------------------------------------------------------ bounds
\* Number of lifecycle hook invocations (startup or shutdown) explored.
MaxCalls == 4
\* Number of HTTP requests explored, one after the other.
MaxRequests == 2

\* ------------------------------------------------- outcomes of collaborators
\* What an awaited collaborator does: it returns, or it raises one of its errors.
ConnectErrors == {"ConnectionRefusedError"}
MeiliErrors == {"MeilisearchCommunicationError", "MeilisearchApiError"}
PingErrors == {"ClientConnectorError"}
\* Exceptions a request stage or a route handler may raise. CancelledError
\* derives from BaseException only, the other two from Exception.
Exceptions == {"ValueError", "KeyError", "CancelledError"}
Responses == {"200", "404"}

\* `except Exception` (line 47) matches instances of Exception only.
IsException(e) == e \in {"ValueError", "KeyError"}

VARIABLES
    is_connected,   \* database.is_connected
    connections,    \* connections the database handle holds open
    cur,            \* the lifecycle hook being run, or the last one run
    prev,           \* the lifecycle hook run before cur
    nCalls,         \* lifecycle hooks invoked so far
    tasks,          \* the tasks made by asyncio.create_task, in spawn order
    req,            \* the HTTP request in flight, or the last one served
    nReq            \* requests received so far

vars == <<is_connected, connections, cur, prev, nCalls, tasks, req, nReq>>

lifecycleVars == <<is_connected, connections, cur, prev, nCalls>>

\* ------------------------------------------------------------ middleware
\* The order in which the module registers its HTTP middleware:
\* @app.middleware("http") sentry_exception (line 42),
\* @app.middleware("http") auth_middleware_wrapper (line 78),
\* app.add_middleware(SessionMiddleware) (line 85).
Registrations == <<"sentry_exception", "auth_middleware_wrapper", "SessionMiddleware">>

\* app.add_middleware / @app.middleware: Starlette inserts the new middleware
\* at the front of user_middleware (user_middleware.insert(0, ...)).
AddMiddlewareAppend(stack, m) == Append(stack, m)

AddMiddleware(stack, m) == <<m>> \o stack

RECURSIVE BuildStack(_, _)
BuildStack(regs, stack) ==
    IF regs = <<>> THEN stack
    ELSE BuildStack(Tail(regs), AddMiddleware(stack, Head(regs)))

\* user_middleware after import of the module; the middleware stack wraps
\* the router starting from the last entry, so entry 1 is the outermost stage.
user_middleware == BuildStack(Registrations, <<>>)

Depth == Len(user_middleware)

\* ---------------------------------------------------------------- helpers
Names(events) == [i \in DOMAIN events |-> events[i].call]

IsPrefix(s, t) == Len(s) <= Len(t) /\ \A i \in 1..Len(s) : s[i] = t[i]

Index(s, x) == IF \E i \in DOMAIN s : s[i] = x
               THEN CHOOSE i \in DOMAIN s : s[i] = x /\ \A j \in 1..(i-1) : s[j] # x
               ELSE 0

Event(c, o) == [call |-> c, outcome |-> o, connected |-> is_connected]

NoCall == [op |-> "none", pc |-> "idle", events |-> <<>>, raised |-> "none",
           connAtEntry |-> FALSE, tasksAtEntry |-> 0]

NoRequest == [pc |-> "idle", depth |-> 0, entered |-> <<>>, raisedAt |-> "none",
              out |-> [kind |-> "none", val |-> "none"],
              handlerOut |-> [kind |-> "none", val |-> "none"],
              sentryIn |-> [kind |-> "none", val |-> "none"],
              sentryOut |-> [kind |-> "none", val |-> "none"],
              captured |-> <<>>]

\* ------------------------------------------------------------------- Init
\* The state after the module is imported: database handle not connected,
\* no hook run, no task spawned, no request received.
Init ==
    /\ is_connected = FALSE
    /\ connections = 0
    /\ cur = NoCall
    /\ prev = NoCall
    /\ nCalls = 0
    /\ tasks = <<>>
    /\ req = NoRequest
    /\ nReq = 0

\* ---------------------------------------------------------------- startup
\* startup() is invoked (line 62-63).
startup_enter ==
    /\ cur.pc = "idle"
    /\ nCalls < MaxCalls
    /\ prev' = cur
    /\ cur' = [op |-> "startup", pc |-> "connect", events |-> <<>>, raised |-> "none",
               connAtEntry |-> is_connected, tasksAtEntry |-> Len(tasks)]
    /\ nCalls' = nCalls + 1
    /\ UNCHANGED <<is_connected, connections, tasks, req, nReq>>

\* database_.connect() (classquiz.db): on success the handle reports
\* connected and holds one more connection; on failure it raises.
Connect(outcome) ==
    IF outcome = "returned"
    THEN /\ is_connected' = TRUE
         /\ connections' = connections + 1
    ELSE UNCHANGED <<is_connected, connections>>

\* An awaited call of startup() returned or raised: on a raise the exception
\* leaves startup() and no later line runs.
Await(call, outcome, nextpc) ==
    cur' = [cur EXCEPT !.events = Append(@, Event(call, outcome)),
                       !.pc = IF outcome = "returned" THEN nextpc ELSE "idle",
                       !.raised = IF outcome = "returned" THEN "none" ELSE outcome]

\* Mutant: connect without looking at is_connected.
startup_connect_unguarded ==
    /\ cur.op = "startup" /\ cur.pc = "connect"
    /\ \E outcome \in {"returned"} \cup ConnectErrors :
          /\ Connect(outcome)
          /\ Await("connect", outcome, "meilisearch_init")
    /\ UNCHANGED <<prev, nCalls, tasks, req, nReq>>

\* Mutant: connect is started but not awaited, the next line runs at once.
startup_connect_not_awaited ==
    /\ cur.op = "startup" /\ cur.pc = "connect"
    /\ cur' = [cur EXCEPT !.pc = "meilisearch_init"]
    /\ UNCHANGED <<is_connected, connections, prev, nCalls, tasks, req, nReq>>

\* if not database_.is_connected: await database_.connect()  (line 64-65)
startup_connect ==
    /\ cur.op = "startup" /\ cur.pc = "connect"
    /\ IF ~is_connected
       THEN \E outcome \in {"returned"} \cup ConnectErrors :
               /\ Connect(outcome)
               /\ Await("connect", outcome, "meilisearch_init")
       ELSE /\ cur' = [cur EXCEPT !.pc = "meilisearch_init"]
            /\ UNCHANGED <<is_connected, connections>>
    /\ UNCHANGED <<prev, nCalls, tasks, req, nReq>>

\* Mutant: a failure of meilisearch_init is swallowed.
startup_meilisearch_init_swallow ==
    /\ cur.op = "startup" /\ cur.pc = "meilisearch_init"
    /\ \E outcome \in {"returned"} \cup MeiliErrors :
          cur' = [cur EXCEPT !.events = Append(@, Event("meilisearch_init", outcome)),
                             !.pc = "telemetry_ping"]
    /\ UNCHANGED <<is_connected, connections, prev, nCalls, tasks, req, nReq>>

\* await meilisearch_init()  (line 66)
startup_meilisearch_init ==
    /\ cur.op = "startup" /\ cur.pc = "meilisearch_init"
    /\ \E outcome \in {"returned"} \cup MeiliErrors :
          Await("meilisearch_init", outcome, "telemetry_ping")
    /\ UNCHANGED <<is_connected, connections, prev, nCalls, tasks, req, nReq>>

\* await telemetry_ping()  (line 67): no try/except around it.
startup_telemetry_ping ==
    /\ cur.op = "startup" /\ cur.pc = "telemetry_ping"
    /\ \E outcome \in {"returned"} \cup PingErrors :
          Await("telemetry_ping", outcome, "create_task")
    /\ UNCHANGED <<is_connected, connections, prev, nCalls, tasks, req, nReq>>

NewTask == [pc |-> "pending", jobs |-> 0, wakeups |-> 0]

\* asyncio.create_task(background_tasks())  (line 68): the task is made and
\* startup() returns without awaiting it.
startup_create_task ==
    /\ cur.op = "startup" /\ cur.pc = "create_task"
    /\ tasks' = Append(tasks, NewTask)
    /\ cur' = [cur EXCEPT !.events = Append(@, Event("create_task", "returned")),
                          !.pc = "idle"]
    /\ UNCHANGED <<is_connected, connections, prev, nCalls, req, nReq>>

startup ==
    \/ startup_enter
    \/ startup_connect
    \/ startup_meilisearch_init
    \/ startup_telemetry_ping
    \/ startup_create_task

\* --------------------------------------------------------------- shutdown
\* database_.disconnect() (classquiz.db): the handle reports disconnected
\* and holds no connection.
Disconnect ==
    /\ is_connected' = FALSE
    /\ connections' = 0

\* Mutant: disconnect without looking at is_connected.
shutdown_unguarded ==
    /\ cur.pc = "idle"
    /\ nCalls < MaxCalls
    /\ prev' = cur
    /\ nCalls' = nCalls + 1
    /\ Disconnect
    /\ cur' = [op |-> "shutdown", pc |-> "idle",
               events |-> <<Event("disconnect", "returned")>>, raised |-> "none",
               connAtEntry |-> is_connected, tasksAtEntry |-> Len(tasks)]
    /\ UNCHANGED <<tasks, req, nReq>>

\* Mutant: shutdown() also cancels the background tasks.
shutdown_cancels_tasks ==
    /\ cur.pc = "idle"
    /\ nCalls < MaxCalls
    /\ prev' = cur
    /\ nCalls' = nCalls + 1
    /\ IF is_connected
       THEN /\ Disconnect
            /\ cur' = [op |-> "shutdown", pc |-> "idle",
                       events |-> <<Event("disconnect", "returned")>>, raised |-> "none",
                       connAtEntry |-> is_connected, tasksAtEntry |-> Len(tasks)]
       ELSE /\ UNCHANGED <<is_connected, connections>>
            /\ cur' = [op |-> "shutdown", pc |-> "idle", events |-> <<>>, raised |-> "none",
                       connAtEntry |-> is_connected, tasksAtEntry |-> Len(tasks)]
    /\ tasks' = [i \in DOMAIN tasks |-> [tasks[i] EXCEPT !.pc = "cancelled"]]
    /\ UNCHANGED <<req, nReq>>

\* shutdown()  (line 72-75): if database_.is_connected: await database_.disconnect()
shutdown ==
    /\ cur.pc = "idle"
    /\ nCalls < MaxCalls
    /\ prev' = cur
    /\ nCalls' = nCalls + 1
    /\ IF is_connected
       THEN /\ Disconnect
            /\ cur' = [op |-> "shutdown", pc |-> "idle",
                       events |-> <<Event("disconnect", "returned")>>, raised |-> "none",
                       connAtEntry |-> is_connected, tasksAtEntry |-> Len(tasks)]
       ELSE /\ UNCHANGED <<is_connected, connections>>
            /\ cur' = [op |-> "shutdown", pc |-> "idle", events |-> <<>>, raised |-> "none",
                       connAtEntry |-> is_connected, tasksAtEntry |-> Len(tasks)]
    /\ UNCHANGED <<tasks, req, nReq>>

\* ------------------------------------------------------- background_tasks
\* The task runs for the first time: schedule = Scheduler();
\* schedule.cyclic(timedelta(hours=6), bg_tasks.clean_editor_images_up);
\* then the first await asyncio.sleep(1)  (line 55-58).
background_tasks_start(t) ==
    /\ tasks[t].pc = "pending"
    /\ tasks' = [tasks EXCEPT ![t] = [@ EXCEPT !.pc = "sleeping", !.jobs = @ + 1]]
    /\ UNCHANGED <<lifecycleVars, req, nReq>>

\* while True: await asyncio.sleep(1)  (line 57-58): the sleep ends and the
\* loop sleeps again; wakeups is the parity of the sleeps finished.
background_tasks_loop(t) ==
    /\ tasks[t].pc = "sleeping"
    /\ tasks' = [tasks EXCEPT ![t] = [@ EXCEPT !.wakeups = (@ + 1) % 2]]
    /\ UNCHANGED <<lifecycleVars, req, nReq>>

background_tasks ==
    \E t \in DOMAIN tasks : background_tasks_start(t) \/ background_tasks_loop(t)

\* ------------------------------------------------------------ HTTP requests
Raise(e) == [kind |-> "raise", val |-> e]

Return(r) == [kind |-> "response", val |-> r]

StageIs(name) == req.depth \in 1..Depth /\ user_middleware[req.depth] = name

\* A request arrives and goes to the outermost stage of the middleware stack.
request_receive ==
    /\ req.pc \in {"idle", "done"}
    /\ nReq < MaxRequests
    /\ req' = [NoRequest EXCEPT !.pc = "down", !.depth = 1]
    /\ nReq' = nReq + 1
    /\ UNCHANGED <<lifecycleVars, tasks>>

\* A stage is entered and either calls the next stage or raises e itself.
Enter(name, failures) ==
    \/ req' = [req EXCEPT !.entered = Append(@, name), !.depth = @ + 1]
    \/ \E e \in failures :
          req' = [req EXCEPT !.entered = Append(@, name),
                             !.raisedAt = name,
                             !.out = Raise(e),
                             !.pc = "up",
                             !.depth = @ - 1]

\* What the next stage gave (a response or an exception) goes on to the
\* stage around this one; after the outermost stage the request is served.
Leave(out) ==
    req' = [req EXCEPT !.out = out,
                       !.depth = @ - 1,
                       !.pc = IF req.depth = 1 THEN "done" ELSE "up"]

\* SessionMiddleware (line 85) is entered: it loads the session cookie and
\* calls the next stage.
SessionMiddleware_call ==
    /\ req.pc = "down" /\ StageIs("SessionMiddleware")
    /\ Enter("SessionMiddleware", Exceptions)
    /\ UNCHANGED <<lifecycleVars, tasks, nReq>>

\* SessionMiddleware gets the inner stages' outcome back.
SessionMiddleware_return ==
    /\ req.pc = "up" /\ StageIs("SessionMiddleware")
    /\ Leave(req.out)
    /\ UNCHANGED <<lifecycleVars, tasks, nReq>>

\* auth_middleware_wrapper (line 79-80) is entered:
\* return await rememberme_middleware(request, call_next).
auth_middleware_wrapper_call ==
    /\ req.pc = "down" /\ StageIs("auth_middleware_wrapper")
    /\ Enter("auth_middleware_wrapper", Exceptions)
    /\ UNCHANGED <<lifecycleVars, tasks, nReq>>

\* auth_middleware_wrapper returns what rememberme_middleware returns or raises.
auth_middleware_wrapper_return ==
    /\ req.pc = "up" /\ StageIs("auth_middleware_wrapper")
    /\ Leave(req.out)
    /\ UNCHANGED <<lifecycleVars, tasks, nReq>>

\* sentry_exception (line 43-45) is entered: try: response = await call_next(request)
sentry_exception_call ==
    /\ req.pc = "down" /\ StageIs("sentry_exception")
    /\ Enter("sentry_exception", {})
    /\ UNCHANGED <<lifecycleVars, tasks, nReq>>

\* Mutant: the caught exception is replaced by another one (raise RuntimeError(...)).
sentry_exception_return_wraps ==
    /\ req.pc = "up" /\ StageIs("sentry_exception")
    /\ LET in == req.out
           caught == in.kind = "raise" /\ IsException(in.val)
           out == IF caught THEN Raise("RuntimeError") ELSE in
       IN req' = [req EXCEPT !.sentryIn = in,
                             !.sentryOut = out,
                             !.captured = IF caught THEN Append(@, in.val) ELSE @,
                             !.out = out,
                             !.depth = @ - 1,
                             !.pc = IF req.depth = 1 THEN "done" ELSE "up"]
    /\ UNCHANGED <<lifecycleVars, tasks, nReq>>

\* call_next returned or raised inside sentry_exception (line 45-51):
\*     return response
\* except Exception as e: ... sentry_sdk.capture_exception(e); raise e
\* Anything that is not an Exception passes the except clause untouched.
sentry_exception_return ==
    /\ req.pc = "up" /\ StageIs("sentry_exception")
    /\ LET in == req.out
           caught == in.kind = "raise" /\ IsException(in.val)
           out == IF caught THEN Raise(in.val) ELSE in
       IN req' = [req EXCEPT !.sentryIn = in,
                             !.sentryOut = out,
                             !.captured = IF caught THEN Append(@, in.val) ELSE @,
                             !.out = out,
                             !.depth = @ - 1,
                             !.pc = IF req.depth = 1 THEN "done" ELSE "up"]
    /\ UNCHANGED <<lifecycleVars, tasks, nReq>>

\* The routers / socket app behind the middleware (line 83-99): the matched
\* handler returns a response or raises.
route_handler ==
    /\ req.pc = "down" /\ req.depth = Depth + 1
    /\ \E out \in {Return(r) : r \in Responses} \cup {Raise(e) : e \in Exceptions} :
          req' = [req EXCEPT !.entered = Append(@, "handler"),
                             !.raisedAt = IF out.kind = "raise" THEN "handler" ELSE @,
                             !.out = out,
                             !.handlerOut = out,
                             !.pc = "up",
                             !.depth = @ - 1]
    /\ UNCHANGED <<lifecycleVars, tasks, nReq>>

http_request ==
    \/ request_receive
    \/ SessionMiddleware_call
    \/ SessionMiddleware_return
    \/ auth_middleware_wrapper_call
    \/ auth_middleware_wrapper_return
    \/ sentry_exception_call
    \/ sentry_exception_return
    \/ route_handler

\* ------------------------------------------------------------------- Spec
Next ==
    \/ startup
    \/ shutdown
    \/ background_tasks
    \/ http_request

Spec == Init /\ [][Next]_vars

\* ================================================================ claims
StartupOrder == <<"connect", "meilisearch_init", "telemetry_ping", "create_task">>

Invoked(call, c) == \E i \in DOMAIN c.events : c.events[i].call = call

RaisedIn(call, errors, c) ==
    \E i \in DOMAIN c.events : c.events[i].call = call /\ c.events[i].outcome \in errors

SentryReturned == req.sentryOut.kind # "none"

Alive(t) == t.pc \in {"pending", "sleeping"}

\* C1: the middleware stages of a request run in the order sentry_exception,
\* SessionMiddleware, auth_middleware_wrapper, route handler, and an exception
\* raised inside the session stage or the authentication stage is captured by
\* sentry_exception.
C1_SentryOutermost ==
    /\ IsPrefix(req.entered,
                <<"sentry_exception", "SessionMiddleware", "auth_middleware_wrapper", "handler">>)
    /\ (/\ req.pc = "done"
        /\ req.raisedAt \in {"SessionMiddleware", "auth_middleware_wrapper"}
        /\ IsException(req.out.val))
       => req.captured = <<req.out.val>>

\* C2 as stated: whenever the route handler raises, whatever it raises,
\* sentry_exception records it exactly once and raises the same exception;
\* when the handler returns, nothing is recorded and the response is passed on.
C2_EveryRaiseCapturedOnce ==
    SentryReturned =>
        /\ req.sentryOut = req.handlerOut
        /\ req.captured = IF req.handlerOut.kind = "raise"
                          THEN <<req.handlerOut.val>> ELSE <<>>

\* C2 amended: when the route handler raises an instance of Exception,
\* sentry_exception records it exactly once and raises the same exception; an
\* exception that is not an instance of Exception (asyncio.CancelledError)
\* passes unrecorded and unchanged; when the handler returns, nothing is
\* recorded and the response is passed on unchanged.
C2_ExceptionCapturedOnceAndReraised ==
    SentryReturned =>
        /\ req.sentryIn = req.handlerOut
        /\ req.sentryOut = req.handlerOut
        /\ req.captured = IF req.handlerOut.kind = "raise" /\ IsException(req.handlerOut.val)
                          THEN <<req.handlerOut.val>> ELSE <<>>

C2_Witness ==
    /\ req.pc = "done"
    /\ req.raisedAt = "handler"
    /\ IsException(req.handlerOut.val)
    /\ req.captured = <<req.handlerOut.val>>
    /\ req.out = req.handlerOut

\* C3: a startup() that follows a startup() whose connect did not fail finds
\* the handle connected and does not invoke connect; over the two calls connect
\* is invoked once when the first began disconnected, and the handle never
\* holds two connections.
C3_SecondStartupDoesNotReconnect ==
    /\ connections <= 1
    /\ (cur.op = "startup" /\ cur.connAtEntry) => ~Invoked("connect", cur)
    /\ (/\ cur.op = "startup"
        /\ prev.op = "startup"
        /\ ~RaisedIn("connect", ConnectErrors, prev))
       => /\ cur.connAtEntry
          /\ ~Invoked("connect", cur)
          /\ Invoked("connect", prev) <=> ~prev.connAtEntry

C3_Witness ==
    /\ nCalls = 2
    /\ prev.op = "startup" /\ prev.raised = "none" /\ Invoked("connect", prev)
    /\ cur.op = "startup" /\ cur.pc = "idle" /\ cur.raised = "none"
    /\ is_connected /\ connections = 1

\* C4: after shutdown() the handle is disconnected; a shutdown() that found
\* it connected invoked disconnect once, one that found it disconnected
\* invoked nothing, and neither raised.
C4_ShutdownIdempotent ==
    cur.op = "shutdown" =>
        /\ ~is_connected
        /\ connections = 0
        /\ cur.raised = "none"
        /\ cur.pc = "idle"
        /\ Names(cur.events) = IF cur.connAtEntry THEN <<"disconnect">> ELSE <<>>

C4_Witness ==
    /\ cur.op = "shutdown" /\ ~cur.connAtEntry
    /\ prev.op = "shutdown" /\ prev.connAtEntry

\* C5: the calls of one startup() are made in the order connect,
\* meilisearch_init, telemetry_ping, create_task, each after the one before it
\* returned; the first startup() of a process begins with connect; and the
\* handle reports connected whenever meilisearch_init, telemetry_ping or
\* create_task is invoked.
C5_StartupStepOrder ==
    cur.op = "startup" =>
        /\ IsPrefix(Names(cur.events),
                    IF cur.connAtEntry THEN Tail(StartupOrder) ELSE StartupOrder)
        /\ nCalls = 1 => ~cur.connAtEntry
        /\ \A i \in DOMAIN cur.events :
              /\ cur.events[i].call # "connect" => cur.events[i].connected
              /\ i > 1 => cur.events[i-1].outcome = "returned"
        /\ cur.pc \in {"meilisearch_init", "telemetry_ping", "create_task"} => is_connected

C5_Witness ==
    /\ nCalls = 1
    /\ cur.op = "startup" /\ cur.pc = "idle"
    /\ Names(cur.events) = StartupOrder

\* C6: when connect and meilisearch_init succeed and telemetry_ping raises,
\* startup() completes without error and the background task is spawned.
C6_PingFailureIgnored ==
    (cur.op = "startup" /\ RaisedIn("telemetry_ping", PingErrors, cur)) =>
        /\ cur.raised = "none"
        /\ cur.pc = "idle" => /\ Invoked("create_task", cur)
                              /\ Len(tasks) = cur.tasksAtEntry + 1

\* C7: in every state reachable by startup() and shutdown() invocations at
\* most one background_tasks loop and at most one registered clean-up job exist.
C7_SingleBackgroundLoop ==
    /\ Len(tasks) <= 1
    /\ Cardinality({t \in DOMAIN tasks : tasks[t].jobs > 0}) <= 1

\* C8: when meilisearch_init raises, startup() raises the same error, sends
\* no telemetry ping and spawns no background task.
C8_MeiliFailureFatal ==
    \A e \in MeiliErrors :
        (cur.op = "startup" /\ RaisedIn("meilisearch_init", {e}, cur)) =>
            /\ cur.raised = e
            /\ cur.pc = "idle"
            /\ ~Invoked("telemetry_ping", cur)
            /\ ~Invoked("create_task", cur)
            /\ Len(tasks) = cur.tasksAtEntry

C8_Witness ==
    /\ cur.op = "startup"
    /\ RaisedIn("meilisearch_init", MeiliErrors, cur)
    /\ cur.raised \in MeiliErrors

\* C9: whenever auth_middleware_wrapper is entered for a request,
\* SessionMiddleware has already been entered for that request.
C9_AuthAfterSession ==
    Index(req.entered, "auth_middleware_wrapper") # 0 =>
        /\ Index(req.entered, "SessionMiddleware") # 0
        /\ Index(req.entered, "SessionMiddleware") < Index(req.entered, "auth_middleware_wrapper")

C9_Witness ==
    /\ req.pc = "done"
    /\ Index(req.entered, "auth_middleware_wrapper") # 0

\* C10: startup() returns after create_task although the loop it spawned has
\* not returned; a spawned background task is alive in every later state; and
\* a shutdown() step changes nothing but the lifecycle state (the tasks stay
\* as they are).
C10_StartupReturned ==
    (cur.op = "startup" /\ Invoked("create_task", cur)) =>
        /\ cur.pc = "idle"
        /\ cur.raised = "none"
        /\ Len(tasks) = cur.tasksAtEntry + 1
        /\ \A t \in DOMAIN tasks : Alive(tasks[t])

C10_TaskStep ==
    /\ \A t \in DOMAIN tasks : t \in DOMAIN tasks' /\ Alive(tasks'[t])
    /\ (cur'.op = "shutdown" /\ nCalls' = nCalls + 1) => tasks' = tasks

C10_FireAndForget == []C10_StartupReturned /\ [][C10_TaskStep]_vars

C10_Witness ==
    /\ cur.op = "shutdown" /\ cur.connAtEntry
    /\ prev.op = "startup" /\ Invoked("create_task", prev)
    /\ \E t \in DOMAIN tasks : tasks[t].pc = "sleeping" /\ tasks[t].wakeups = 1

====
